---- MODULE Spec2Model ----
(***************************************************************************)
(* Model of the notebook 7-estimators-multi-gpus.ipynb: the Fashion-MNIST  *)
(* preprocessing cells, the two input_fn pipelines, the TimeHistory hook,  *)
(* the mirrored (synchronous, NUM_GPUS replicas) training loop that        *)
(* estimator.train drives, and the VGG16 layer-freezing loop.              *)
(*                                                                         *)
(* The notebook has several independent parts.  Each part has its own      *)
(* variables, its own initial predicate and its own next-state relation;   *)
(* a specification runs one part and leaves the variables of the other     *)
(* parts at their idle values.                                             *)
(***************************************************************************)
EXTENDS Integers, Sequences, FiniteSets, TLC

(***************************************************************************)
(* Bounds of the model (not program constants).                            *)
(***************************************************************************)
\* largest number of examples N handed to the array-based input_fn
MaxN == 2
\* largest `epochs` argument
MaxEpochs == 2
\* largest `batch_size` argument
MaxBatch == 3
\* largest number of examples of the arrays iterated element by element
MaxExamples == 3
\* images and labels of those arrays run through 0..MaxContent from a seed
MaxContent == 1
\* largest number of images in each Fashion-MNIST array of the model
MaxImages == 2
\* the arrays' pixels and labels are generated from seeds in 0..MaxSeed
MaxSeed == 1
\* longest file name, in path atoms (separators and name chunks)
MaxPathLen == 5
\* largest height and width of a decoded file image; image_size goes one
\* beyond it, so that images are shrunk, kept and enlarged
MaxSide == 2
\* largest number of files the file pattern matches
MaxFiles == 2
\* largest buffer_size argument of the file-pattern input_fn
MaxBuffer == 2
\* largest number of estimator.train calls on one estimator
MaxTrainCalls == 2
\* largest number of estimator.evaluate calls
MaxEvals == 2
\* the wall clock is read as an integer in 0..MaxClock
MaxClock == 2
\* model parameters live in 0..ParamMod-1 (arithmetic modulo ParamMod)
ParamMod == 3
\* largest number of times the monitored session of one train call is
\* re-created after a preemption error
MaxRecoveries == 2
\* save_checkpoints_secs of the RunConfig (600 in the estimator's
\* configuration), in the clock's unit
SAVE_CHECKPOINTS_SECS == 2

(***************************************************************************)
(* Program constants.                                                      *)
(***************************************************************************)
\* NUM_GPUS = 2
NUM_GPUS == 2
\* LABEL_DIMENSIONS = 10
LABEL_DIMENSIONS == 10
\* reshape((TRAINING_SIZE, 28, 28, 1)): height, width and channels
IMG_H == 28
IMG_W == 28
IMG_C == 1
\* the divisor of the normalization, / 255
PIXEL_MAX == 255
\* decode_jpeg(..., channels=3)
CHANNELS == 3
\* the largest uint8 value, by which convert_image_dtype scales
UINT8_MAX == 255
\* keras_vgg16.layers[:-4]
FREEZE_STOP == -4
\* EPOCHS = 2 of the second training cell
EPOCHS == 2
\* SHUFFLE_SIZE = 5000 in the source; the shuffle buffer is scaled down with
\* the dataset sizes so that N < S, N = S and N > S all occur.
SHUFFLE_SIZE == 2

VARIABLES
    \* ---- estimator.train under MirroredStrategy, with the TimeHistory hook
    train_args,       \* [n, epochs, batch_size]: the arguments of input_fn
    dataset,          \* the batches input_fn returned, in iteration order
    next_batch,       \* position of the dataset iterator (1-based)
    train_pc,         \* where estimator.train is
    global_step,      \* the global step variable
    params,           \* params[d]: device d's copy of the model parameters
    dev_pc,           \* dev_pc[d]: what device d is doing in this step
    dev_batch,        \* dev_batch[d]: index of the batch device d was given
    grads,            \* grads[d]: the local gradient device d computed
    received,         \* received[d]: devices whose gradient has arrived at d
    reduced,          \* reduced[d]: the averaged gradient d applied last
    dev_updates,      \* dev_updates[d]: number of updates device d applied
    dev_grad_step,    \* dev_grad_step[d]: step of d's latest local gradient
    checkpoint,       \* global step of the latest saved checkpoint
    clock,            \* time.time()
    times,            \* TimeHistory.times
    iter_time_start,  \* TimeHistory.iter_time_start
    run_starts,       \* history: clock at the before_run of every session.run
                      \* of the latest train call not abandoned for a retry
    run_ends,         \* history: clock at every after_run of the latest train call
    consumed,         \* history: <<step, device, batch index>> of this train
                      \* call's session
    ckpt_params,      \* the parameters in the latest saved checkpoint
    train_error,      \* TRUE once an error has reached the caller of train
    train_calls,      \* number of estimator.train calls made so far
    eval_results,     \* what the evaluate calls since the last train call returned
    hook_calls,       \* number of train calls the TimeHistory instance was passed to
    steps_done,       \* history: training steps completed on this estimator
    steps_lost,       \* history: steps completed after the latest checkpoint
                      \* in sessions that an error then ended
    fail_pc,          \* the stage the latest train call was in when it raised
    last_save,        \* clock when the session's checkpoint saver last saved
    raised,           \* history: the errors session.run raised in this train call
    \* ---- input_fn(images, labels, epochs, batch_size), element by element
    in_images,        \* the images array
    in_labels,        \* the labels array
    pipe_args,        \* [epochs, batch_size]
    pipe_pc,          \* "iterating" until the dataset is exhausted, then "end"
    pipe_epoch,       \* the repetition repeat(epochs) is in
    pipe_pos,         \* number of examples shuffle has read in this epoch
    shuffle_buf,      \* the elements in the shuffle buffer
    cur_batch,        \* the batch being filled
    out_batches,      \* the batches the dataset has produced
    \* ---- the Fashion-MNIST preprocessing cells
    train_images,     \* [shape, data]: array, data in row-major order
    test_images,
    train_labels,     \* integer labels, then one row of LABEL_DIMENSIONS each
    test_labels,
    data_pc,          \* number of preprocessing statements executed
    loaded,           \* history: the four arrays as load_data returned them
    \* ---- the file-pattern input_fn: _map_func on one listed file
    filename,         \* the file name list_files produced
    file_content,     \* what decode_jpeg(read_file(filename)) yields
    image_size,       \* the image_size argument, <<height, width>>
    file_pc,          \* "listed", then "mapped" or "failed"
    mapped,           \* [image, label]: the element _map_func returned
    \* ---- the VGG16 model and the freezing loop
    model_layers,     \* model.layers: [name, trainable] per layer
    vgg_len,          \* len(keras_vgg16.layers): the first layers of the model
    freeze_i,         \* position of the freezing loop in keras_vgg16.layers
    freeze_pc,        \* "vgg", "assembled", "freezing", "done"
    \* ---- the file-pattern input_fn: list_files and the repetition branches
    list_args,        \* [files, shuffle, num_epochs, buffer_size, batch_size]
    list_pc,          \* "called", "listing", "iterating", "end"
    list_applied,     \* the transformations the if / elif chain applied
    list_epoch,       \* the iteration of list_files being read
    list_order,       \* the order list_files yields the files in, this time
    list_pos,         \* number of files read in this iteration
    list_buf,         \* shuffle buffer: <<iteration, file>> elements
    list_out,         \* the files handed to map_and_batch, in order
    list_batches      \* the batches of the returned dataset (file per element)

trainVars == <<train_args, dataset, next_batch, train_pc, global_step, params,
               dev_pc, dev_batch, grads, received, reduced, dev_updates,
               dev_grad_step, checkpoint, clock, times, iter_time_start, run_starts, run_ends,
               consumed, ckpt_params, train_error, train_calls, eval_results,
               hook_calls, steps_done, steps_lost, fail_pc, last_save, raised>>

pipeVars == <<in_images, in_labels, pipe_args, pipe_pc, pipe_epoch, pipe_pos,
              shuffle_buf, cur_batch, out_batches>>

dataVars == <<train_images, test_images, train_labels, test_labels, data_pc,
              loaded>>

fileVars == <<filename, file_content, image_size, file_pc, mapped>>

freezeVars == <<model_layers, vgg_len, freeze_i, freeze_pc>>

listVars == <<list_args, list_pc, list_applied, list_epoch, list_order,
              list_pos, list_buf, list_out, list_batches>>

vars == <<trainVars, pipeVars, dataVars, fileVars, freezeVars, listVars>>

\* what the actions of one part leave alone
nonTrainVars == <<pipeVars, dataVars, fileVars, freezeVars, listVars>>
nonPipeVars == <<trainVars, dataVars, fileVars, freezeVars, listVars>>
nonDataVars == <<trainVars, pipeVars, fileVars, freezeVars, listVars>>
nonFileVars == <<trainVars, pipeVars, dataVars, freezeVars, listVars>>
nonFreezeVars == <<trainVars, pipeVars, dataVars, fileVars, listVars>>
nonListVars == <<trainVars, pipeVars, dataVars, fileVars, freezeVars>>

(***************************************************************************)
(* Arithmetic helpers.                                                     *)
(***************************************************************************)
Min(a, b) == IF a <= b THEN a ELSE b

\* math.ceil(a / b) for a >= 0, b > 0
CeilDiv(a, b) == (a + b - 1) \div b

RECURSIVE SumSeq(_)
SumSeq(s) == IF s = <<>> THEN 0 ELSE Head(s) + SumSeq(Tail(s))

RECURSIVE SumOver(_, _)
SumOver(f, S) ==
    IF S = {} THEN 0
    ELSE LET x == CHOOSE y \in S : TRUE IN f[x] + SumOver(f, S \ {x})

\* number of positions of sequence s holding x
Count(s, x) == Cardinality({i \in 1..Len(s) : s[i] = x})

(***************************************************************************)
(* tf.data transformations of the array-based input_fn, as functions of    *)
(* the whole stream.  Examples are named by their position 1..N in the     *)
(* input arrays.                                                           *)
(***************************************************************************)
\* dataset.shuffle(S) over N elements: the orders a buffer of S elements can
\* produce.  The element at output position j is drawn from a buffer holding
\* the not yet emitted elements among the first j + S - 1 inputs.
ShuffleOrders(N, S) ==
    {p \in [1..N -> 1..N] :
        /\ \A i, j \in 1..N : i /= j => p[i] /= p[j]
        /\ \A j \in 1..N : p[j] <= j + S - 1}

\* .repeat(epochs) after shuffle: every epoch is shuffled afresh and the
\* epochs follow each other.
RECURSIVE RepeatOrders(_, _, _)
RepeatOrders(N, S, e) ==
    IF e = 0 THEN {<<>>}
    ELSE {p \o rest : p \in ShuffleOrders(N, S), rest \in RepeatOrders(N, S, e - 1)}

\* .batch(batch_size): consecutive groups of batch_size elements, the last
\* group keeps what is left (drop_remainder is not set).
Batch(s, bs) ==
    [k \in 1..CeilDiv(Len(s), bs) |->
        SubSeq(s, (k - 1) * bs + 1, Min(k * bs, Len(s)))]

\* the datasets input_fn(images, labels, epochs, batch_size) can return for
\* arrays of n examples
InputFnDatasets(n, epochs, batch_size) ==
    {Batch(s, batch_size) : s \in RepeatOrders(n, SHUFFLE_SIZE, epochs)}

(***************************************************************************)
(* Mirrored training.                                                      *)
(***************************************************************************)
Devices == 1..NUM_GPUS

\* the local gradient of a replica: a function of its parameters and of the
\* examples of its batch
LocalGradient(p, batch) == (p + SumSeq(batch)) % ParamMod

\* the all-reduce result a device computes from the gradients it holds
AverageGradient(g, from) == SumOver(g, from) \div NUM_GPUS

\* the optimizer's update of one parameter copy
ApplyGradient(p, avg) == (p - avg) % ParamMod

\* a device that waits for no gradient but its own
NeededGradientsNone == {}

\* the devices whose gradients a device needs before it may update
NeededGradients == Devices

TrainInit ==
    /\ train_args \in [n : 1..MaxN, epochs : 1..MaxEpochs, batch_size : 1..MaxBatch]
    /\ dataset \in InputFnDatasets(train_args.n, train_args.epochs,
                                   train_args.batch_size)
    /\ next_batch = 1
    /\ train_pc = "start"
    /\ global_step = 0
    /\ \E p0 \in 0..(ParamMod - 1) : params = [d \in Devices |-> p0]
    /\ dev_pc = [d \in Devices |-> "idle"]
    /\ dev_batch = [d \in Devices |-> 0]
    /\ grads = [d \in Devices |-> 0]
    /\ received = [d \in Devices |-> {}]
    /\ reduced = [d \in Devices |-> 0]
    /\ dev_updates = [d \in Devices |-> 0]
    /\ dev_grad_step = [d \in Devices |-> 0]
    /\ checkpoint = 0
    /\ clock = 0
    /\ times = <<>>
    /\ iter_time_start = 0
    /\ run_starts = <<>>
    /\ run_ends = <<>>
    /\ consumed = <<>>
    /\ ckpt_params = params[1]
    /\ train_error = FALSE
    /\ train_calls = 1
    /\ eval_results = <<>>
    /\ hook_calls = 1
    /\ steps_done = 0
    /\ steps_lost = 0
    /\ fail_pc = "none"
    /\ last_save = 0
    /\ raised = <<>>

\* what lives in the estimator besides one training session
countVars == <<hook_calls, steps_done, steps_lost, fail_pc, raised>>
estVars == <<ckpt_params, train_error, train_calls, eval_results, countVars>>
hookVars == <<times, iter_time_start, run_starts, run_ends>>
devVars == <<params, dev_pc, dev_batch, grads, received, reduced, dev_updates,
            dev_grad_step>>

\* time passes, wherever the notebook is: between two train calls, while a
\* session is created or re-created, between and inside the hooks' calls
\* and while a step runs
Tick ==
    /\ train_pc /= "idle"
    /\ clock < MaxClock
    /\ clock' = clock + 1
    /\ UNCHANGED <<train_args, dataset, next_batch, train_pc, global_step,
                   checkpoint, last_save, consumed, hookVars, devVars>>
    /\ UNCHANGED estVars
    /\ UNCHANGED nonTrainVars

\* begin leaving the list of an earlier run in place
begin_keep_times ==
    /\ UNCHANGED <<times, iter_time_start, run_starts, run_ends>>

\* TimeHistory.begin
begin ==
    /\ times' = <<>>
    /\ UNCHANGED <<iter_time_start, run_starts, run_ends>>

\* TimeHistory.before_run
before_run ==
    /\ iter_time_start' = clock
    /\ run_starts' = Append(run_starts, clock)
    /\ UNCHANGED <<times, run_ends>>

\* after_run with the subtraction of iter_time_start forgotten
after_run_no_start ==
    /\ times' = Append(times, clock)
    /\ run_ends' = Append(run_ends, clock)
    /\ UNCHANGED <<iter_time_start, run_starts>>

\* TimeHistory.after_run
after_run ==
    /\ times' = Append(times, clock - iter_time_start)
    /\ run_ends' = Append(run_ends, clock)
    /\ UNCHANGED <<iter_time_start, run_starts>>

\* estimator.train is called: the monitored session is set up and the hooks
\* begin
TrainStart ==
    /\ train_pc = "start"
    /\ begin
    /\ train_pc' = "begun"
    /\ UNCHANGED <<train_args, dataset, next_batch, global_step, checkpoint,
                   last_save, clock, consumed, devVars>>
    /\ UNCHANGED estVars
    /\ UNCHANGED nonTrainVars

\* the monitored session creates its session; once it is created the
\* checkpoint saver saves the restored model ("Saving checkpoints for 0")
\* and starts its timer
CreateSession ==
    /\ train_pc = "begun"
    /\ checkpoint' = global_step
    /\ ckpt_params' = params[1]
    /\ last_save' = clock
    /\ train_pc' = "loop"
    /\ UNCHANGED <<train_args, dataset, next_batch, global_step,
                   clock, consumed, hookVars, devVars>>
    /\ UNCHANGED <<train_error, train_calls, eval_results, countVars>>
    /\ UNCHANGED nonTrainVars

\* while not should_stop(): the hooks' before_run, then session.run starts
RunBegin ==
    /\ train_pc = "loop"
    /\ before_run
    /\ train_pc' = "run"
    /\ UNCHANGED <<train_args, dataset, next_batch, global_step, checkpoint, last_save,
                   clock, consumed, devVars>>
    /\ UNCHANGED estVars
    /\ UNCHANGED nonTrainVars

\* FetchBatches handing the same batch to every device
FetchSameBatch ==
    /\ train_pc = "run"
    /\ next_batch + NUM_GPUS - 1 <= Len(dataset)
    /\ dev_batch' = [d \in Devices |-> next_batch]
    /\ next_batch' = next_batch + NUM_GPUS
    /\ consumed' = consumed \o
           [d \in Devices |-> <<global_step + 1, d, next_batch>>]
    /\ dev_pc' = [d \in Devices |-> "compute"]
    /\ received' = [d \in Devices |-> {}]
    /\ train_pc' = "step"
    /\ UNCHANGED <<train_args, dataset, global_step, checkpoint, last_save, clock,
                   hookVars, params, grads, reduced, dev_updates, dev_grad_step>>
    /\ UNCHANGED estVars
    /\ UNCHANGED nonTrainVars

\* session.run: every device takes the next batch of the iterator
FetchBatches ==
    /\ train_pc = "run"
    /\ next_batch + NUM_GPUS - 1 <= Len(dataset)
    /\ dev_batch' = [d \in Devices |-> next_batch + d - 1]
    /\ next_batch' = next_batch + NUM_GPUS
    /\ consumed' = consumed \o
           [d \in Devices |-> <<global_step + 1, d, next_batch + d - 1>>]
    /\ dev_pc' = [d \in Devices |-> "compute"]
    /\ received' = [d \in Devices |-> {}]
    /\ train_pc' = "step"
    /\ UNCHANGED <<train_args, dataset, global_step, checkpoint, last_save, clock,
                   hookVars, params, grads, reduced, dev_updates, dev_grad_step>>
    /\ UNCHANGED estVars
    /\ UNCHANGED nonTrainVars

\* OutOfRange with no checkpoint saved when the session ends
OutOfRangeNoSave ==
    /\ train_pc = "run"
    /\ next_batch + NUM_GPUS - 1 > Len(dataset)
    /\ next_batch' = Len(dataset) + 1
    /\ train_pc' = "stopped"
    /\ UNCHANGED <<train_args, dataset, global_step, checkpoint, last_save, clock, consumed,
                   hookVars, devVars>>
    /\ UNCHANGED estVars
    /\ UNCHANGED nonTrainVars

\* session.run: the iterator cannot serve every device; OutOfRangeError ends
\* the training loop, after_run is not called and the final checkpoint is
\* saved
OutOfRange ==
    /\ train_pc = "run"
    /\ next_batch + NUM_GPUS - 1 > Len(dataset)
    /\ next_batch' = Len(dataset) + 1
    /\ checkpoint' = global_step
    /\ ckpt_params' = params[1]
    /\ train_pc' = "stopped"
    /\ UNCHANGED <<train_args, dataset, global_step, clock, consumed, last_save,
                   hookVars, devVars>>
    /\ UNCHANGED <<train_error, train_calls, eval_results, countVars>>
    /\ UNCHANGED nonTrainVars

\* device d computes the local gradient on its batch with its own copy
ComputeGradient(d) ==
    /\ train_pc = "step"
    /\ dev_pc[d] = "compute"
    /\ grads' = [grads EXCEPT ![d] = LocalGradient(params[d], dataset[dev_batch[d]])]
    /\ received' = [received EXCEPT ![d] = {d}]
    /\ dev_grad_step' = [dev_grad_step EXCEPT ![d] = global_step + 1]
    /\ dev_pc' = [dev_pc EXCEPT ![d] = "wait"]
    /\ UNCHANGED <<train_args, dataset, next_batch, train_pc, global_step,
                   checkpoint, last_save, clock, consumed, hookVars, params, dev_batch,
                   reduced, dev_updates>>
    /\ UNCHANGED estVars
    /\ UNCHANGED nonTrainVars

\* all-reduce: once every worker has finished, the gradient of src reaches dst
Communicate(src, dst) ==
    /\ train_pc = "step"
    /\ \A d \in Devices : dev_pc[d] /= "compute"
    /\ dev_pc[dst] = "wait"
    /\ src \notin received[dst]
    /\ received' = [received EXCEPT ![dst] = @ \cup {src}]
    /\ UNCHANGED <<train_args, dataset, next_batch, train_pc, global_step,
                   checkpoint, last_save, clock, consumed, hookVars, params, dev_pc,
                   dev_batch, grads, reduced, dev_updates, dev_grad_step>>
    /\ UNCHANGED estVars
    /\ UNCHANGED nonTrainVars

\* ApplyUpdate applying the device's own local gradient instead of the average
ApplyLocalGradient(d) ==
    /\ train_pc = "step"
    /\ dev_pc[d] = "wait"
    /\ NeededGradients \subseteq received[d]
    /\ params' = [params EXCEPT ![d] = ApplyGradient(@, grads[d])]
    /\ reduced' = [reduced EXCEPT ![d] = grads[d]]
    /\ dev_updates' = [dev_updates EXCEPT ![d] = @ + 1]
    /\ dev_pc' = [dev_pc EXCEPT ![d] = "done"]
    /\ UNCHANGED <<train_args, dataset, next_batch, train_pc, global_step,
                   checkpoint, last_save, clock, consumed, hookVars, dev_batch, grads,
                   received, dev_grad_step>>
    /\ UNCHANGED estVars
    /\ UNCHANGED nonTrainVars

\* device d holds all the gradients: it averages them and updates its copy
ApplyUpdate(d) ==
    /\ train_pc = "step"
    /\ dev_pc[d] = "wait"
    /\ NeededGradients \subseteq received[d]
    /\ params' = [params EXCEPT
                    ![d] = ApplyGradient(@, AverageGradient(grads, received[d]))]
    /\ reduced' = [reduced EXCEPT ![d] = AverageGradient(grads, received[d])]
    /\ dev_updates' = [dev_updates EXCEPT ![d] = @ + 1]
    /\ dev_pc' = [dev_pc EXCEPT ![d] = "done"]
    /\ UNCHANGED <<train_args, dataset, next_batch, train_pc, global_step,
                   checkpoint, last_save, clock, consumed, hookVars, dev_batch, grads,
                   received, dev_grad_step>>
    /\ UNCHANGED estVars
    /\ UNCHANGED nonTrainVars

\* every device has updated: the step is complete, session.run returns
StepEnd ==
    /\ train_pc = "step"
    /\ \A d \in Devices : dev_pc[d] = "done"
    /\ global_step' = global_step + 1
    /\ dev_pc' = [d \in Devices |-> "idle"]
    /\ train_pc' = "ran"
    /\ UNCHANGED <<train_args, dataset, next_batch, checkpoint, last_save, clock, consumed,
                   hookVars, params, dev_batch, grads, received, reduced,
                   dev_updates, dev_grad_step>>
    /\ steps_done' = steps_done + 1
    /\ UNCHANGED <<ckpt_params, train_error, train_calls, eval_results,
                   hook_calls, steps_lost, fail_pc, raised>>
    /\ UNCHANGED nonTrainVars

\* session.run has returned and the hooked session calls the hooks'
\* after_run in the order of its hook list, the estimator's checkpoint saver
\* before the hooks passed to train.  CheckpointSaverHook.after_run reads the
\* clock and saves the model when save_checkpoints_secs have passed since
\* the saver last saved
SaverAfterRun ==
    /\ train_pc = "ran"
    /\ IF clock - last_save >= SAVE_CHECKPOINTS_SECS
          THEN /\ checkpoint' = global_step
               /\ ckpt_params' = params[1]
               /\ last_save' = clock
          ELSE UNCHANGED <<checkpoint, ckpt_params, last_save>>
    /\ train_pc' = "hooks"
    /\ UNCHANGED <<train_args, dataset, next_batch, global_step,
                   clock, consumed, hookVars, devVars>>
    /\ UNCHANGED <<train_error, train_calls, eval_results, countVars>>
    /\ UNCHANGED nonTrainVars

\* TimeHistory.after_run, the last of the hooks' after_run: it reads the
\* clock and appends the elapsed time; then back to the loop condition
RunEnd ==
    /\ train_pc = "hooks"
    /\ after_run
    /\ train_pc' = "loop"
    /\ UNCHANGED <<train_args, dataset, next_batch, global_step, checkpoint,
                   last_save, clock, consumed, devVars>>
    /\ UNCHANGED estVars
    /\ UNCHANGED nonTrainVars

TrainNext ==
    \/ Tick
    \/ TrainStart
    \/ CreateSession
    \/ RunBegin
    \/ FetchBatches
    \/ OutOfRange
    \/ \E d \in Devices : ComputeGradient(d)
    \/ \E s, d \in Devices : Communicate(s, d)
    \/ \E d \in Devices : ApplyUpdate(d)
    \/ StepEnd
    \/ SaverAfterRun
    \/ RunEnd

(***************************************************************************)
(* The estimator beyond one successful train call: a step that raises or   *)
(* is interrupted, a further train call, and evaluate.  The notebook       *)
(* authors no try/except and no recovery around any of them; what survives *)
(* a train call is the latest checkpoint in model_dir.  Checkpoints are    *)
(* saved when a session is created, every save_checkpoints_secs while it   *)
(* runs, and when training ends.  estimator.train runs the steps in a      *)
(* MonitoredTrainingSession, whose session.run is layered:                 *)
(*   - the hooked session calls the hooks' before_run, runs the step and,  *)
(*     once the step has returned, the hooks' after_run;                   *)
(*   - the recoverable session around it catches the preemption errors,    *)
(*     closes the session, creates a new one from the latest checkpoint    *)
(*     and runs the step again, hooks included;                            *)
(*   - the end of the input (OutOfRangeError) ends the loop; every other   *)
(*     exception leaves estimator.train, without the hooks' end.           *)
(***************************************************************************)
\* _PREEMPTION_ERRORS of the monitored session
PREEMPTION_ERRORS == {"AbortedError", "UnavailableError"}

\* the errors a training step on the arrays raises: out of memory and
\* device unavailability
StepErrors == {"ResourceExhaustedError", "UnavailableError"}

\* the train call's session has been re-created this many times
Recoveries == Cardinality({i \in 1..Len(raised) : raised[i] \in PREEMPTION_ERRORS})

\* a sequence without its last element
Front(q) == SubSeq(q, 1, Len(q) - 1)

\* the monitored session is closed on an error: the graph, the iterator, the
\* devices' state and the checkpoint saver go with it, nothing is saved, and
\* of the model only the latest checkpoint is left
DropSession ==
    /\ dataset' = <<>>
    /\ next_batch' = 1
    /\ consumed' = <<>>
    /\ global_step' = checkpoint
    /\ params' = [d \in Devices |-> ckpt_params]
    /\ dev_updates' = [d \in Devices |-> checkpoint]
    /\ dev_grad_step' = [d \in Devices |-> checkpoint]
    /\ dev_pc' = [d \in Devices |-> "idle"]
    /\ dev_batch' = [d \in Devices |-> 0]
    /\ grads' = [d \in Devices |-> 0]
    /\ received' = [d \in Devices |-> {}]
    /\ reduced' = [d \in Devices |-> 0]
    /\ last_save' = 0

\* session.run raises err, before the devices have taken their batches or
\* with the step under way.  No hook's after_run is called for the step and
\* the global step is not advanced.  A preemption error is caught by the
\* recoverable session, which closes the session and goes on to create a new
\* one (the start time of the abandoned run will be overwritten); the hooks
\* do not begin again and estimator.train goes on.  Any other error leaves
\* the training loop and estimator.train, which closes the session on its
\* way and raises to the cell.  Either way nothing is saved and the steps
\* completed since the latest checkpoint are lost.
SessionRunRaises(err) ==
    /\ train_pc \in {"run", "step"}
    /\ err \in PREEMPTION_ERRORS => Recoveries < MaxRecoveries
    /\ raised' = Append(raised, err)
    /\ steps_lost' = steps_lost + (global_step - checkpoint)
    /\ DropSession
    /\ IF err \in PREEMPTION_ERRORS
          THEN /\ run_starts' = Front(run_starts)
               /\ train_pc' = "recover"
               /\ UNCHANGED <<train_error, fail_pc, times, iter_time_start,
                              run_ends>>
          ELSE /\ train_error' = TRUE
               /\ fail_pc' = train_pc
               /\ train_pc' = "closed"
               /\ UNCHANGED hookVars
    /\ UNCHANGED <<train_args, checkpoint, clock>>
    /\ UNCHANGED <<ckpt_params, train_calls, eval_results, hook_calls,
                   steps_done>>
    /\ UNCHANGED nonTrainVars

\* StepFails with the hooks' after_run still run for the failed step
StepFailsAfterRun ==
    /\ train_pc \in {"run", "step"}
    /\ after_run
    /\ \E err \in StepErrors \ PREEMPTION_ERRORS : raised' = Append(raised, err)
    /\ train_error' = TRUE
    /\ steps_lost' = steps_lost + (global_step - checkpoint)
    /\ DropSession
    /\ fail_pc' = train_pc
    /\ train_pc' = "closed"
    /\ UNCHANGED <<train_args, checkpoint, clock>>
    /\ UNCHANGED <<ckpt_params, train_calls, eval_results, hook_calls,
                   steps_done>>
    /\ UNCHANGED nonTrainVars

\* a training step raises an error the monitored session does not recover
\* from (out of memory): the exception reaches the cell that called
\* estimator.train
StepFails == \E err \in StepErrors \ PREEMPTION_ERRORS : SessionRunRaises(err)

\* a training step raises a preemption error (device unavailable): the
\* monitored session closes its session to create another
StepPreempted == \E err \in StepErrors \cap PREEMPTION_ERRORS : SessionRunRaises(err)

\* the recoverable session creates the new session: its replicas are
\* restored from the latest checkpoint, its iterator starts the freshly
\* shuffled dataset again and its checkpoint saver saves at once; then the
\* step is run again, from the hooks' before_run
RecreateSession ==
    /\ train_pc = "recover"
    /\ dataset' \in InputFnDatasets(train_args.n, train_args.epochs,
                                    train_args.batch_size)
    /\ checkpoint' = global_step
    /\ ckpt_params' = params[1]
    /\ last_save' = clock
    /\ train_pc' = "loop"
    /\ UNCHANGED <<train_args, next_batch, global_step, clock, consumed,
                   hookVars, devVars>>
    /\ UNCHANGED <<train_error, train_calls, eval_results, countVars>>
    /\ UNCHANGED nonTrainVars

\* the cell is interrupted while estimator.train runs.  The interpreter
\* raises KeyboardInterrupt between two of its own instructions, never inside
\* the native session.run:
\*   - before the hooks' begin ("start"), or after it and before the
\*     session is created ("begun");
\*   - between after_run and the next before_run ("loop");
\*   - after before_run and before the native session.run is entered, or,
\*     when that run met the end of the input, after its OutOfRangeError and
\*     before the hooks' end saves the final checkpoint ("run");
\*   - once the step is complete (global step advanced, batches consumed,
\*     parameters updated) and before the hooks' after_run ("ran"), which is
\*     where an interrupt that arrives during session.run surfaces;
\*   - between the checkpoint saver's after_run and TimeHistory's ("hooks");
\*   - while a session is re-created ("recover");
\*   - after the final checkpoint was saved and before estimator.train
\*     returns ("stopped"; the log still prints "Loss for final step" after
\*     "Saving checkpoints for 293").
\* The interrupt itself saves nothing; estimator.train closes the session and
\* raises to the cell.  fail_pc keeps the stage the call was in, "ran" for
\* both points at which session.run has returned and TimeHistory's after_run
\* has not been called.
Interrupt ==
    /\ train_pc \in {"start", "begun", "loop", "run", "ran", "hooks", "recover",
                    "stopped"}
    /\ train_error' = TRUE
    /\ steps_lost' = steps_lost + (global_step - checkpoint)
    /\ DropSession
    /\ fail_pc' = IF train_pc = "hooks" THEN "ran" ELSE train_pc
    /\ train_pc' = "closed"
    /\ UNCHANGED <<train_args, checkpoint, clock, hookVars>>
    /\ UNCHANGED <<ckpt_params, train_calls, eval_results, hook_calls,
                   steps_done, raised>>
    /\ UNCHANGED nonTrainVars

\* estimator.train returns: the monitored session is closed and with it the
\* graph, the iterator, the devices' state and the checkpoint saver with its
\* timer.  The checkpoints, the hook object and the clock outlive it;
\* global_step and params show the values the session ended with, which the
\* final checkpoint holds.
CloseSession ==
    /\ train_pc = "stopped"
    /\ dataset' = <<>>
    /\ next_batch' = 1
    /\ consumed' = <<>>
    /\ dev_pc' = [d \in Devices |-> "idle"]
    /\ dev_batch' = [d \in Devices |-> 0]
    /\ grads' = [d \in Devices |-> 0]
    /\ received' = [d \in Devices |-> {}]
    /\ reduced' = [d \in Devices |-> 0]
    /\ last_save' = 0
    /\ train_pc' = "closed"
    /\ UNCHANGED <<train_args, global_step, params, dev_updates, dev_grad_step,
                   checkpoint, clock, hookVars>>
    /\ UNCHANGED estVars
    /\ UNCHANGED nonTrainVars

\* estimator.train is called again on the same estimator, after a call that
\* returned or after one that raised, with the same input_fn arguments (the
\* literals of the training cell).  same_hook tells whether hooks holds the
\* TimeHistory instance of the call before or a new one; a new instance has
\* recorded nothing.  The call invokes input_fn, which builds a freshly
\* shuffled dataset, and creates a session whose replicas are restored from
\* the latest checkpoint (model.ckpt-N; model.ckpt-0 after a call that saved
\* nothing beyond the checkpoint of its session's creation).
TrainCall(same_hook) ==
    /\ train_pc = "closed"
    /\ train_calls < MaxTrainCalls
    /\ train_calls' = train_calls + 1
    /\ train_error' = FALSE
    /\ times' = IF same_hook THEN times ELSE <<>>
    /\ iter_time_start' = IF same_hook THEN iter_time_start ELSE 0
    /\ hook_calls' = IF same_hook THEN hook_calls + 1 ELSE 1
    /\ run_starts' = <<>>
    /\ run_ends' = <<>>
    /\ eval_results' = <<>>
    /\ dataset' \in InputFnDatasets(train_args.n, train_args.epochs,
                                    train_args.batch_size)
    /\ global_step' = checkpoint
    /\ params' = [d \in Devices |-> ckpt_params]
    /\ dev_updates' = [d \in Devices |-> checkpoint]
    /\ dev_grad_step' = [d \in Devices |-> checkpoint]
    /\ train_pc' = "start"
    /\ fail_pc' = "none"
    /\ raised' = <<>>
    /\ UNCHANGED <<train_args, next_batch, checkpoint, last_save, clock,
                   consumed, dev_pc, dev_batch, grads, received, reduced>>
    /\ UNCHANGED <<ckpt_params, steps_done, steps_lost>>
    /\ UNCHANGED nonTrainVars

\* the training cell is executed again: time_hist = TimeHistory() creates a
\* new hook, then estimator.train(..., hooks=[time_hist])
TrainAgain == TrainCall(FALSE)

\* estimator.train(..., hooks=[time_hist]) alone, with the TimeHistory
\* instance an earlier train call was given
TrainSameHook == TrainCall(TRUE)

\* estimator.evaluate, called once train has returned or raised: a new
\* session restores the latest checkpoint and reports its global step with
\* the metrics; nothing is written back.  The result records the train call
\* it followed.
Evaluate ==
    /\ train_pc = "closed"
    /\ Len(eval_results) < MaxEvals
    /\ eval_results' = Append(eval_results,
           [global_step |-> checkpoint, params |-> ckpt_params,
            calls |-> train_calls])
    /\ UNCHANGED <<train_args, dataset, next_batch, train_pc, global_step,
                   checkpoint, last_save, clock, consumed, hookVars, devVars>>
    /\ UNCHANGED <<ckpt_params, train_error, train_calls, countVars>>
    /\ UNCHANGED nonTrainVars

\* the calls the notebook's cells make on one estimator, a cell being
\* executed any number of times
SessionNext ==
    \/ Tick
    \/ TrainStart
    \/ CreateSession
    \/ RunBegin
    \/ FetchBatches
    \/ OutOfRange
    \/ \E d \in Devices : ComputeGradient(d)
    \/ \E s, d \in Devices : Communicate(s, d)
    \/ \E d \in Devices : ApplyUpdate(d)
    \/ StepEnd
    \/ SaverAfterRun
    \/ RunEnd
    \/ StepFails
    \/ StepPreempted
    \/ RecreateSession
    \/ Interrupt
    \/ CloseSession
    \/ TrainAgain
    \/ Evaluate

\* train calls on one estimator that are all given the same TimeHistory
\* instance
ReuseNext ==
    \/ Tick
    \/ TrainStart
    \/ CreateSession
    \/ RunBegin
    \/ FetchBatches
    \/ OutOfRange
    \/ \E d \in Devices : ComputeGradient(d)
    \/ \E s, d \in Devices : Communicate(s, d)
    \/ \E d \in Devices : ApplyUpdate(d)
    \/ StepEnd
    \/ SaverAfterRun
    \/ RunEnd
    \/ StepFails
    \/ StepPreempted
    \/ RecreateSession
    \/ Interrupt
    \/ CloseSession
    \/ TrainSameHook

\* one train call in which a step may raise or the cell be interrupted, up
\* to its return
FailureNext ==
    \/ Tick
    \/ TrainStart
    \/ CreateSession
    \/ RunBegin
    \/ FetchBatches
    \/ OutOfRange
    \/ \E d \in Devices : ComputeGradient(d)
    \/ \E s, d \in Devices : Communicate(s, d)
    \/ \E d \in Devices : ApplyUpdate(d)
    \/ StepEnd
    \/ SaverAfterRun
    \/ RunEnd
    \/ StepFails
    \/ StepPreempted
    \/ RecreateSession
    \/ Interrupt
    \/ CloseSession

\* the training part is not running
TrainIdle ==
    /\ train_args = [n |-> 0, epochs |-> 0, batch_size |-> 0]
    /\ dataset = <<>>
    /\ next_batch = 1
    /\ train_pc = "idle"
    /\ global_step = 0
    /\ params = [d \in Devices |-> 0]
    /\ dev_pc = [d \in Devices |-> "idle"]
    /\ dev_batch = [d \in Devices |-> 0]
    /\ grads = [d \in Devices |-> 0]
    /\ received = [d \in Devices |-> {}]
    /\ reduced = [d \in Devices |-> 0]
    /\ dev_updates = [d \in Devices |-> 0]
    /\ dev_grad_step = [d \in Devices |-> 0]
    /\ checkpoint = 0
    /\ clock = 0
    /\ times = <<>>
    /\ iter_time_start = 0
    /\ run_starts = <<>>
    /\ run_ends = <<>>
    /\ consumed = <<>>
    /\ ckpt_params = 0
    /\ train_error = FALSE
    /\ train_calls = 0
    /\ eval_results = <<>>
    /\ hook_calls = 0
    /\ steps_done = 0
    /\ steps_lost = 0
    /\ fail_pc = "none"
    /\ last_save = 0
    /\ raised = <<>>

(***************************************************************************)
(* The array-based input_fn, element by element:                           *)
(*   from_tensor_slices((images, labels)).shuffle(SHUFFLE_SIZE)            *)
(*       .repeat(epochs).batch(batch_size).prefetch(None)                  *)
(* prefetch only buffers batches ahead of the consumer: it hands them on   *)
(* in the order batch produced them, which is the order of out_batches.    *)
(***************************************************************************)
\* from_tensor_slices((images, labels)): element i pairs images[i] with
\* labels[i]; pos records the position it was sliced from
from_tensor_slices(imgs, lbls) ==
    [i \in 1..Len(imgs) |-> [pos |-> i, image |-> imgs[i], label |-> lbls[i]]]

PipeInit ==
    /\ \E n \in 1..MaxExamples, iseed \in 0..MaxSeed, lseed \in 0..MaxSeed :
          /\ in_images = [i \in 1..n |-> (iseed + i - 1) % (MaxContent + 1)]
          /\ in_labels = [i \in 1..n |-> (lseed + i - 1) % (MaxContent + 1)]
    /\ pipe_args \in [epochs : 1..MaxEpochs, batch_size : 1..MaxBatch]
    /\ pipe_pc = "iterating"
    /\ pipe_epoch = 1
    /\ pipe_pos = 0
    /\ shuffle_buf = {}
    /\ cur_batch = <<>>
    /\ out_batches = <<>>

PipeIdle ==
    /\ in_images = <<>>
    /\ in_labels = <<>>
    /\ pipe_args = [epochs |-> 0, batch_size |-> 0]
    /\ pipe_pc = "idle"
    /\ pipe_epoch = 0
    /\ pipe_pos = 0
    /\ shuffle_buf = {}
    /\ cur_batch = <<>>
    /\ out_batches = <<>>

\* ShuffleFill reading on however many elements the buffer holds
ShuffleFillUnbounded ==
    /\ pipe_pc = "iterating"
    /\ pipe_pos < Len(in_images)
    /\ shuffle_buf' = shuffle_buf \cup
                          {from_tensor_slices(in_images, in_labels)[pipe_pos + 1]}
    /\ pipe_pos' = pipe_pos + 1
    /\ UNCHANGED <<in_images, in_labels, pipe_args, pipe_pc, pipe_epoch,
                   cur_batch, out_batches>>
    /\ UNCHANGED nonPipeVars

\* shuffle reads the next input element into its buffer
ShuffleFill ==
    /\ pipe_pc = "iterating"
    /\ pipe_pos < Len(in_images)
    /\ Cardinality(shuffle_buf) < SHUFFLE_SIZE
    /\ shuffle_buf' = shuffle_buf \cup
                          {from_tensor_slices(in_images, in_labels)[pipe_pos + 1]}
    /\ pipe_pos' = pipe_pos + 1
    /\ UNCHANGED <<in_images, in_labels, pipe_args, pipe_pc, pipe_epoch,
                   cur_batch, out_batches>>
    /\ UNCHANGED nonPipeVars

\* batch takes element e into the batch being filled and emits the batch
\* when it holds batch_size elements
BatchAdd(e) ==
    IF Len(cur_batch) + 1 = pipe_args.batch_size
    THEN /\ out_batches' = Append(out_batches, Append(cur_batch, e))
         /\ cur_batch' = <<>>
    ELSE /\ cur_batch' = Append(cur_batch, e)
         /\ UNCHANGED out_batches

\* shuffle emits a random element of its buffer (the buffer is full, or the
\* input of this epoch is exhausted); repeat passes it on to batch
ShuffleEmit(e) ==
    /\ pipe_pc = "iterating"
    /\ e \in shuffle_buf
    /\ \/ Cardinality(shuffle_buf) = SHUFFLE_SIZE
       \/ pipe_pos = Len(in_images)
    /\ shuffle_buf' = shuffle_buf \ {e}
    /\ BatchAdd(e)
    /\ UNCHANGED <<in_images, in_labels, pipe_args, pipe_pc, pipe_epoch, pipe_pos>>
    /\ UNCHANGED nonPipeVars

\* the shuffled input is exhausted and repeat starts the next epoch
RepeatNextEpoch ==
    /\ pipe_pc = "iterating"
    /\ pipe_pos = Len(in_images)
    /\ shuffle_buf = {}
    /\ pipe_epoch < pipe_args.epochs
    /\ pipe_epoch' = pipe_epoch + 1
    /\ pipe_pos' = 0
    /\ UNCHANGED <<in_images, in_labels, pipe_args, pipe_pc, shuffle_buf,
                   cur_batch, out_batches>>
    /\ UNCHANGED nonPipeVars

\* EndOfInput as batch(batch_size, drop_remainder=True) would behave
EndOfInputDropRemainder ==
    /\ pipe_pc = "iterating"
    /\ pipe_pos = Len(in_images)
    /\ shuffle_buf = {}
    /\ pipe_epoch = pipe_args.epochs
    /\ cur_batch' = <<>>
    /\ pipe_pc' = "end"
    /\ UNCHANGED <<in_images, in_labels, pipe_args, pipe_epoch, pipe_pos,
                   shuffle_buf, out_batches>>
    /\ UNCHANGED nonPipeVars

\* the last epoch is exhausted: batch emits what it holds, if anything
EndOfInput ==
    /\ pipe_pc = "iterating"
    /\ pipe_pos = Len(in_images)
    /\ shuffle_buf = {}
    /\ pipe_epoch = pipe_args.epochs
    /\ out_batches' = IF cur_batch = <<>> THEN out_batches
                      ELSE Append(out_batches, cur_batch)
    /\ cur_batch' = <<>>
    /\ pipe_pc' = "end"
    /\ UNCHANGED <<in_images, in_labels, pipe_args, pipe_epoch, pipe_pos,
                   shuffle_buf>>
    /\ UNCHANGED nonPipeVars

PipeNext ==
    \/ ShuffleFill
    \/ \E e \in shuffle_buf : ShuffleEmit(e)
    \/ RepeatNextEpoch
    \/ EndOfInput

(***************************************************************************)
(* The Fashion-MNIST preprocessing cells.  An array is [shape, data] with  *)
(* data in row-major order, as numpy holds it.  A uint8 pixel is an        *)
(* integer; a normalized pixel is the exact quotient <<numerator,          *)
(* denominator>> (float32 rounding is monotone and keeps the quotients     *)
(* 0/255 = 0 and 255/255 = 1, so it moves no value across 0 or 1).         *)
(***************************************************************************)
RECURSIVE Product(_)
Product(s) == IF s = <<>> THEN 1 ELSE Head(s) * Product(Tail(s))

\* tf.keras.datasets.fashion_mnist.load_data(): n images of 28 x 28 uint8
\* pixels; the pixels run through all of 0..255 starting at seed, so that
\* image i + 1 starts where image i ended (28 * 28 = 16 mod 256: any two
\* images of an array differ at every position)
load_images(n, seed) ==
    [shape |-> <<n, IMG_H, IMG_W>>,
     data  |-> [k \in 1..(n * IMG_H * IMG_W) |-> (seed + k - 1) % (PIXEL_MAX + 1)]]

\* ... and their n integer labels in 0..LABEL_DIMENSIONS-1, running from
\* seed: neighbouring images have different labels
load_labels(n, seed) == [i \in 1..n |-> (seed + i - 1) % LABEL_DIMENSIONS]

\* the pixel divided by 256, the number of uint8 values, instead of 255
Divide256(v) == <<v, PIXEL_MAX + 1>>

\* x / 255 for one pixel
Divide255(v) == <<v, PIXEL_MAX>>

\* np.asarray(images, dtype=np.float32) / 255
normalize(arr) ==
    [shape |-> arr.shape, data |-> [k \in DOMAIN arr.data |-> Divide255(arr.data[k])]]

\* reshape to [B, H, W, C] reading the data with the image index as the
\* fastest axis, as if the input were [H, W, B]: pixel [i, r, c, 0] of the
\* result is taken from position (r * W + c) * B + i, so pixels move between
\* the images as soon as there are two of them
reshape_interleaved(arr, shape) ==
    IF Product(shape) = Len(arr.data)
    THEN [shape |-> shape,
          data |-> [k \in DOMAIN arr.data |->
                      LET i == (k - 1) \div (shape[2] * shape[3])
                          r == ((k - 1) \div shape[3]) % shape[2]
                          c == (k - 1) % shape[3]
                      IN  arr.data[(r * shape[3] + c) * shape[1] + i + 1]]]
    ELSE [shape |-> <<>>, data |-> <<>>]

\* arr.reshape(shape): the data is kept as it is, under the new shape
reshape(arr, shape) ==
    IF Product(shape) = Len(arr.data)
    THEN [shape |-> shape, data |-> arr.data]
    ELSE [shape |-> <<>>, data |-> <<>>]

\* to_categorical with the columns numbered from 1: label l sets column l - 1
to_categorical_from_one(y, num_classes) ==
    [i \in DOMAIN y |-> [j \in 0..(num_classes - 1) |-> IF j + 1 = y[i] THEN 1 ELSE 0]]

\* tf.keras.utils.to_categorical(y, num_classes): a row of zeros per label,
\* with categorical[i, y[i]] = 1 (columns are numbered from 0)
to_categorical(y, num_classes) ==
    [i \in DOMAIN y |-> [j \in 0..(num_classes - 1) |-> IF j = y[i] THEN 1 ELSE 0]]

\* 2^k
RECURSIVE Pow2(_)
Pow2(k) == IF k = 0 THEN 1 ELSE 2 * Pow2(k - 1)

\* the spacing of float32 values at magnitude m >= 2^24
RECURSIVE Float32Spacing(_, _)
Float32Spacing(m, q) == IF m < Pow2(24) * q THEN q ELSE Float32Spacing(m, 2 * q)

\* the float32 nearest to the integer x (ties to even): integers up to 2^24
\* are float32 values, larger ones are rounded to a multiple of the spacing
float32(x) ==
    LET m == IF x < 0 THEN -x ELSE x
        q == Float32Spacing(m, 1)
        lo == (m \div q) * q
        r == m - lo
        up == \/ 2 * r > q
              \/ (2 * r = q /\ (m \div q) % 2 = 1)
        rounded == IF up THEN lo + q ELSE lo
    IN  IF x < 0 THEN -rounded ELSE rounded

\* labels.astype(np.float32)
astype_float32(rows) ==
    [i \in DOMAIN rows |-> [j \in DOMAIN rows[i] |-> float32(rows[i][j])]]

DataInit ==
    /\ \E n_train \in 1..MaxImages, n_test \in 1..MaxImages,
          ps_train \in 0..MaxSeed, ps_test \in 0..MaxSeed,
          ls \in 0..(LABEL_DIMENSIONS - 1) :
          /\ train_images = load_images(n_train, ps_train)
          /\ train_labels = load_labels(n_train, ls)
          /\ test_images = load_images(n_test, ps_test)
          /\ test_labels = load_labels(n_test, ls + n_train)
    /\ data_pc = 0
    /\ loaded = [train_images |-> train_images, train_labels |-> train_labels,
                 test_images |-> test_images, test_labels |-> test_labels]

DataIdle ==
    /\ train_images = [shape |-> <<>>, data |-> <<>>]
    /\ test_images = [shape |-> <<>>, data |-> <<>>]
    /\ train_labels = <<>>
    /\ test_labels = <<>>
    /\ data_pc = -1
    /\ loaded = [train_images |-> train_images, train_labels |-> train_labels,
                 test_images |-> test_images, test_labels |-> test_labels]

\* TRAINING_SIZE = len(train_images)
TRAINING_SIZE == train_images.shape[1]

\* TEST_SIZE = len(test_images)
TEST_SIZE == test_images.shape[1]

\* train_images = np.asarray(train_images, dtype=np.float32) / 255
NormalizeTrain ==
    /\ data_pc = 0
    /\ train_images' = normalize(train_images)
    /\ data_pc' = 1
    /\ UNCHANGED <<test_images, train_labels, test_labels, loaded>>
    /\ UNCHANGED nonDataVars

\* train_images = train_images.reshape((TRAINING_SIZE, 28, 28, 1))
ReshapeTrain ==
    /\ data_pc = 1
    /\ train_images' = reshape(train_images, <<TRAINING_SIZE, IMG_H, IMG_W, IMG_C>>)
    /\ data_pc' = 2
    /\ UNCHANGED <<test_images, train_labels, test_labels, loaded>>
    /\ UNCHANGED nonDataVars

\* test_images = np.asarray(test_images, dtype=np.float32) / 255
NormalizeTest ==
    /\ data_pc = 2
    /\ test_images' = normalize(test_images)
    /\ data_pc' = 3
    /\ UNCHANGED <<train_images, train_labels, test_labels, loaded>>
    /\ UNCHANGED nonDataVars

\* test_images = test_images.reshape((TEST_SIZE, 28, 28, 1))
ReshapeTest ==
    /\ data_pc = 3
    /\ test_images' = reshape(test_images, <<TEST_SIZE, IMG_H, IMG_W, IMG_C>>)
    /\ data_pc' = 4
    /\ UNCHANGED <<train_images, train_labels, test_labels, loaded>>
    /\ UNCHANGED nonDataVars

\* train_labels = tf.keras.utils.to_categorical(train_labels, LABEL_DIMENSIONS)
CategoricalTrain ==
    /\ data_pc = 4
    /\ train_labels' = to_categorical(train_labels, LABEL_DIMENSIONS)
    /\ data_pc' = 5
    /\ UNCHANGED <<train_images, test_images, test_labels, loaded>>
    /\ UNCHANGED nonDataVars

\* test_labels = tf.keras.utils.to_categorical(test_labels, LABEL_DIMENSIONS)
CategoricalTest ==
    /\ data_pc = 5
    /\ test_labels' = to_categorical(test_labels, LABEL_DIMENSIONS)
    /\ data_pc' = 6
    /\ UNCHANGED <<train_images, test_images, train_labels, loaded>>
    /\ UNCHANGED nonDataVars

\* train_labels = train_labels.astype(np.float32)
AstypeTrain ==
    /\ data_pc = 6
    /\ train_labels' = astype_float32(train_labels)
    /\ data_pc' = 7
    /\ UNCHANGED <<train_images, test_images, test_labels, loaded>>
    /\ UNCHANGED nonDataVars

\* test_labels = test_labels.astype(np.float32)
AstypeTest ==
    /\ data_pc = 7
    /\ test_labels' = astype_float32(test_labels)
    /\ data_pc' = 8
    /\ UNCHANGED <<train_images, test_images, train_labels, loaded>>
    /\ UNCHANGED nonDataVars

DataNext ==
    \/ NormalizeTrain
    \/ ReshapeTrain
    \/ NormalizeTest
    \/ ReshapeTest
    \/ CategoricalTrain
    \/ CategoricalTest
    \/ AstypeTrain
    \/ AstypeTest

(***************************************************************************)
(* The file-pattern input_fn: _map_func applied to one listed file.  A     *)
(* file name is a sequence of path atoms: the separator os.sep and chunks  *)
(* of name characters; a run of chunks between separators is one path     *)
(* component.                                                              *)
(***************************************************************************)
\* os.sep
SEP == "/"

\* labels = ['CNV', 'DME', 'DRUSEN', 'NORMAL']
labels == <<"CNV", "DME", "DRUSEN", "NORMAL">>

\* the atoms file names are built from: the separator, two of the category
\* names, and a chunk that belongs to no category name
PathAtoms == {SEP, "DME", "NORMAL", "x"}

\* the file names of at most MaxPathLen atoms
Filenames == UNION {[1..n -> PathAtoms] : n \in 1..MaxPathLen}

\* tf.string_split([filename], delimiter=os.sep).values: the non-empty runs
\* between separators, in order (empty tokens are skipped)
RECURSIVE string_split(_, _)
string_split(name, token) ==
    IF name = <<>>
    THEN IF token = <<>> THEN <<>> ELSE <<token>>
    ELSE IF Head(name) = SEP
         THEN (IF token = <<>> THEN <<>> ELSE <<token>>)
                  \o string_split(Tail(name), <<>>)
         ELSE string_split(Tail(name), Append(token, Head(name)))

\* table = index_table_from_tensor(mapping=labels); table.lookup(key): the
\* 0-based position of key in labels, -1 for a key that is not in labels
table_lookup(key) ==
    IF \E k \in 1..Len(labels) : key = <<labels[k]>>
    THEN (CHOOSE k \in 1..Len(labels) : key = <<labels[k]>>) - 1
    ELSE -1

\* num_classes = len(labels)
num_classes == Len(labels)

\* tf.one_hot(index, depth): 1 at position index, 0 elsewhere; all 0 for an
\* index outside 0..depth-1
one_hot(index, depth) == [j \in 0..(depth - 1) |-> IF j = index THEN 1 ELSE 0]

\* the uint8 values file images are made of
PixelSamples == <<0, 255, 128, 1, 254>>

\* tf.image.decode_jpeg(tf.read_file(filename), channels=3): an h x w x 3
\* array of uint8
decoded_image(h, w, seed) ==
    [shape |-> <<h, w, CHANNELS>>,
     data  |-> [k \in 1..(h * w * CHANNELS) |->
                   PixelSamples[((seed + k) % Len(PixelSamples)) + 1]]]

\* the decoded images of the model
FileContents ==
    {decoded_image(h, w, seed) :
        h \in 1..MaxSide, w \in 1..MaxSide, seed \in 0..(Len(PixelSamples) - 1)}

\* the image_size arguments of the model
ImageSizes == (1..(MaxSide + 1)) \X (1..(MaxSide + 1))

\* element [r, c, ch] (0-based) of an h x w x CHANNELS array
PixelAt(arr, r, c, ch) == arr.data[(r * arr.shape[2] + c) * CHANNELS + ch + 1]

\* one pixel of convert_image_dtype: the uint8 value times 1 / 255
ScaleUint8(v) == <<v, UINT8_MAX>>

\* tf.image.convert_image_dtype(image, dtype=tf.float32)
convert_image_dtype(arr) ==
    [shape |-> arr.shape, data |-> [k \in DOMAIN arr.data |-> ScaleUint8(arr.data[k])]]

\* one output pixel of bilinear resizing (align_corners=False): with
\* in = y * h / oh, the rows floor(in) and min(floor(in) + 1, h - 1) are
\* blended with weight in - floor(in), and the columns likewise:
\*   top + (bottom - top) * y_lerp, top = left + (right - left) * x_lerp
BilinearPixel(arr, size, y, x, ch) ==
    LET h == arr.shape[1]
        w == arr.shape[2]
        oh == size[1]
        ow == size[2]
        ylo == (y * h) \div oh
        yhi == Min(ylo + 1, h - 1)
        yl == (y * h) % oh
        xlo == (x * w) \div ow
        xhi == Min(xlo + 1, w - 1)
        xl == (x * w) % ow
        den == PixelAt(arr, ylo, xlo, ch)[2]
        tl == PixelAt(arr, ylo, xlo, ch)[1]
        tr == PixelAt(arr, ylo, xhi, ch)[1]
        bl == PixelAt(arr, yhi, xlo, ch)[1]
        br == PixelAt(arr, yhi, xhi, ch)[1]
        top == tl * ow + (tr - tl) * xl
        bottom == bl * ow + (br - bl) * xl
    IN  <<top * oh + (bottom - top) * yl, den * ow * oh>>

\* tf.image.resize_images(image, size=image_size)
resize_images(arr, size) ==
    [shape |-> <<size[1], size[2], CHANNELS>>,
     data  |-> [k \in 1..(size[1] * size[2] * CHANNELS) |->
                   BilinearPixel(arr, size,
                                 ((k - 1) \div CHANNELS) \div size[2],
                                 ((k - 1) \div CHANNELS) % size[2],
                                 (k - 1) % CHANNELS)]]

\* the label of _map_func: one_hot(table.lookup(values[-2]), num_classes)
map_label(name) ==
    LET values == string_split(name, <<>>)
    IN  one_hot(table_lookup(values[Len(values) - 1]), num_classes)

\* the image of _map_func
map_image(content, size) == resize_images(convert_image_dtype(content), size)

\* a file name of the expected layout, and a one-pixel image
DefaultFilename == <<"x", SEP, "DME", SEP, "x">>
DefaultContent == decoded_image(1, 1, 0)

FileInit ==
    /\ \/ /\ filename \in Filenames
          /\ file_content = DefaultContent
          /\ image_size = <<1, 1>>
       \/ /\ filename = DefaultFilename
          /\ file_content \in FileContents
          /\ image_size \in ImageSizes
    /\ file_pc = "listed"
    /\ mapped = [image |-> [shape |-> <<>>, data |-> <<>>], label |-> <<>>]

FileIdle ==
    /\ filename = <<>>
    /\ file_content = [shape |-> <<>>, data |-> <<>>]
    /\ image_size = <<0, 0>>
    /\ file_pc = "idle"
    /\ mapped = [image |-> [shape |-> <<>>, data |-> <<>>], label |-> <<>>]

\* _map_func(filename) on a file name with a parent directory
MapFunc ==
    /\ file_pc = "listed"
    /\ Len(string_split(filename, <<>>)) >= 2
    /\ mapped' = [image |-> map_image(file_content, image_size),
                  label |-> map_label(filename)]
    /\ file_pc' = "mapped"
    /\ UNCHANGED <<filename, file_content, image_size>>
    /\ UNCHANGED nonFileVars

\* _map_func(filename) on a file name of fewer than two components:
\* values[-2] is out of range and the pipeline fails
MapFuncFails ==
    /\ file_pc = "listed"
    /\ Len(string_split(filename, <<>>)) < 2
    /\ file_pc' = "failed"
    /\ UNCHANGED <<filename, file_content, image_size, mapped>>
    /\ UNCHANGED nonFileVars

FileNext ==
    \/ MapFunc
    \/ MapFuncFails

(***************************************************************************)
(* The VGG16 backbone, the Flatten / Dense head and the freezing loop.     *)
(***************************************************************************)
\* keras_vgg16 = VGG16(input_shape=(224,224,3), include_top=False): its layers
VGG16_LAYERS ==
    <<"input_1",
      "block1_conv1", "block1_conv2", "block1_pool",
      "block2_conv1", "block2_conv2", "block2_pool",
      "block3_conv1", "block3_conv2", "block3_conv3", "block3_pool",
      "block4_conv1", "block4_conv2", "block4_conv3", "block4_pool",
      "block5_conv1", "block5_conv2", "block5_conv3", "block5_pool">>

\* a new layer is trainable
NewLayer(name) == [name |-> name, trainable |-> TRUE]

\* the end of the Python slice s[:stop] of a sequence of n elements
SliceEnd(n, stop) ==
    IF stop >= 0 THEN Min(stop, n)
    ELSE IF n + stop >= 0 THEN n + stop ELSE 0

FreezeInit ==
    /\ model_layers = [i \in 1..Len(VGG16_LAYERS) |-> NewLayer(VGG16_LAYERS[i])]
    /\ vgg_len = Len(VGG16_LAYERS)
    /\ freeze_i = 0
    /\ freeze_pc = "vgg"

FreezeIdle ==
    /\ model_layers = <<>>
    /\ vgg_len = 0
    /\ freeze_i = 0
    /\ freeze_pc = "idle"

\* output = Flatten()(keras_vgg16.output); predictions = Dense(...)(output);
\* model = Model(inputs=keras_vgg16.input, outputs=predictions)
AssembleModel ==
    /\ freeze_pc = "vgg"
    /\ model_layers' = model_layers \o <<NewLayer("flatten"), NewLayer("dense")>>
    /\ freeze_pc' = "assembled"
    /\ UNCHANGED <<vgg_len, freeze_i>>
    /\ UNCHANGED nonFreezeVars

\* for layer in keras_vgg16.layers[:-4]: the loop starts
FreezeLoopStart ==
    /\ freeze_pc = "assembled"
    /\ freeze_i' = 0
    /\ freeze_pc' = "freezing"
    /\ UNCHANGED <<model_layers, vgg_len>>
    /\ UNCHANGED nonFreezeVars

\* layer.trainable = False for the next layer of the slice
FreezeLayer ==
    /\ freeze_pc = "freezing"
    /\ freeze_i < SliceEnd(vgg_len, FREEZE_STOP)
    /\ model_layers' = [model_layers EXCEPT ![freeze_i + 1].trainable = FALSE]
    /\ freeze_i' = freeze_i + 1
    /\ UNCHANGED <<vgg_len, freeze_pc>>
    /\ UNCHANGED nonFreezeVars

\* the slice is exhausted
FreezeLoopEnd ==
    /\ freeze_pc = "freezing"
    /\ freeze_i >= SliceEnd(vgg_len, FREEZE_STOP)
    /\ freeze_pc' = "done"
    /\ UNCHANGED <<model_layers, vgg_len, freeze_i>>
    /\ UNCHANGED nonFreezeVars

FreezeNext ==
    \/ AssembleModel
    \/ FreezeLoopStart
    \/ FreezeLayer
    \/ FreezeLoopEnd

(***************************************************************************)
(* The file-pattern input_fn as a dataset of files: list_files, the        *)
(* if / elif chain choosing shuffle_and_repeat, shuffle or repeat, and      *)
(* map_and_batch (which maps every file with _map_func and groups           *)
(* batch_size of them).  Files are numbered 1..files.  The num_epochs       *)
(* argument is None, its default, or a number n, written <<n>>.             *)
(***************************************************************************)
None == <<>>

\* the orders in which list_files(file_pattern, shuffle) can yield n files:
\* the sorted order, or any order when it shuffles
ListFilesOrders(n, shuffle) ==
    IF shuffle
    THEN {o \in [1..n -> 1..n] : \A i, j \in 1..n : i /= j => o[i] /= o[j]}
    ELSE {[i \in 1..n |-> i]}

\* the chain with the shuffle test first: shuffling hides the repetition
AppliedShuffleFirst(shuffle, num_epochs) ==
    IF shuffle THEN {"shuffle"}
    ELSE IF num_epochs /= None THEN {"repeat"}
    ELSE {}

\* if num_epochs is not None and shuffle: ... elif shuffle: ...
\* elif num_epochs is not None: ...
Applied(shuffle, num_epochs) ==
    IF num_epochs /= None /\ shuffle THEN {"shuffle_and_repeat"}
    ELSE IF shuffle THEN {"shuffle"}
    ELSE IF num_epochs /= None THEN {"repeat"}
    ELSE {}

\* how often the applied transformations iterate over list_files
Iterations(applied, num_epochs) ==
    IF applied \cap {"shuffle_and_repeat", "repeat"} /= {} THEN num_epochs[1]
    ELSE 1

\* whether the applied transformations hold elements in a shuffle buffer
Buffered(applied) == applied \cap {"shuffle_and_repeat", "shuffle"} /= {}

ListInit ==
    /\ list_args \in [files : 1..MaxFiles, shuffle : BOOLEAN,
                      num_epochs : {None} \cup {<<n>> : n \in 1..MaxEpochs},
                      buffer_size : 1..MaxBuffer, batch_size : 1..MaxBatch]
    /\ list_pc = "called"
    /\ list_applied = {}
    /\ list_epoch = 0
    /\ list_order = <<>>
    /\ list_pos = 0
    /\ list_buf = {}
    /\ list_out = <<>>
    /\ list_batches = <<>>

ListIdle ==
    /\ list_args = [files |-> 0, shuffle |-> FALSE, num_epochs |-> None,
                    buffer_size |-> 0, batch_size |-> 0]
    /\ list_pc = "idle"
    /\ list_applied = {}
    /\ list_epoch = 0
    /\ list_order = <<>>
    /\ list_pos = 0
    /\ list_buf = {}
    /\ list_out = <<>>
    /\ list_batches = <<>>

\* input_fn builds the dataset: the if / elif chain applies its branch
BuildDataset ==
    /\ list_pc = "called"
    /\ list_applied' = Applied(list_args.shuffle, list_args.num_epochs)
    /\ list_pc' = "listing"
    /\ UNCHANGED <<list_args, list_epoch, list_order, list_pos, list_buf,
                   list_out, list_batches>>
    /\ UNCHANGED nonListVars

\* an iteration over list_files starts: the matched files, in some order
ListFiles ==
    /\ list_pc = "listing"
    /\ list_order' \in ListFilesOrders(list_args.files, list_args.shuffle)
    /\ list_epoch' = list_epoch + 1
    /\ list_pos' = 0
    /\ list_pc' = "iterating"
    /\ UNCHANGED <<list_args, list_applied, list_buf, list_out, list_batches>>
    /\ UNCHANGED nonListVars

\* no shuffle buffer (repeat, or no transformation): the next file goes
\* straight to map_and_batch
PassFile ==
    /\ list_pc = "iterating"
    /\ ~Buffered(list_applied)
    /\ list_pos < list_args.files
    /\ list_out' = Append(list_out, list_order[list_pos + 1])
    /\ list_pos' = list_pos + 1
    /\ UNCHANGED <<list_args, list_pc, list_applied, list_epoch, list_order,
                   list_buf, list_batches>>
    /\ UNCHANGED nonListVars

\* shuffle / shuffle_and_repeat read the next file into the buffer
BufferFile ==
    /\ list_pc = "iterating"
    /\ Buffered(list_applied)
    /\ list_pos < list_args.files
    /\ Cardinality(list_buf) < list_args.buffer_size
    /\ list_buf' = list_buf \cup {<<list_epoch, list_order[list_pos + 1]>>}
    /\ list_pos' = list_pos + 1
    /\ UNCHANGED <<list_args, list_pc, list_applied, list_epoch, list_order,
                   list_out, list_batches>>
    /\ UNCHANGED nonListVars

\* shuffle / shuffle_and_repeat emit a random element of the buffer, once it
\* is full or nothing is left to read.  The buffer is filled across
\* iterations, but the element is drawn among those of the oldest iteration
\* in it, so that the files of one iteration all come out before any file
\* of the next.
EmitFile(e) ==
    /\ list_pc = "iterating"
    /\ e \in list_buf
    /\ \A f \in list_buf : e[1] <= f[1]
    /\ \/ Cardinality(list_buf) = list_args.buffer_size
       \/ /\ list_pos = list_args.files
          /\ list_epoch = Iterations(list_applied, list_args.num_epochs)
    /\ list_buf' = list_buf \ {e}
    /\ list_out' = Append(list_out, e[2])
    /\ UNCHANGED <<list_args, list_pc, list_applied, list_epoch, list_order,
                   list_pos, list_batches>>
    /\ UNCHANGED nonListVars

\* the files of this iteration are read and another repetition is due; the
\* fused shuffle_and_repeat goes on with the buffer as it is
NextIteration ==
    /\ list_pc = "iterating"
    /\ list_pos = list_args.files
    /\ list_epoch < Iterations(list_applied, list_args.num_epochs)
    /\ list_pc' = "listing"
    /\ UNCHANGED <<list_args, list_applied, list_epoch, list_order, list_pos,
                   list_buf, list_out, list_batches>>
    /\ UNCHANGED nonListVars

\* end of input: map_and_batch has grouped the files it was handed into
\* batches of batch_size, the last one possibly shorter
EndOfFiles ==
    /\ list_pc = "iterating"
    /\ list_pos = list_args.files
    /\ list_epoch = Iterations(list_applied, list_args.num_epochs)
    /\ list_buf = {}
    /\ list_batches' = Batch(list_out, list_args.batch_size)
    /\ list_pc' = "end"
    /\ UNCHANGED <<list_args, list_applied, list_epoch, list_order, list_pos,
                   list_buf, list_out>>
    /\ UNCHANGED nonListVars

ListNext ==
    \/ BuildDataset
    \/ ListFiles
    \/ PassFile
    \/ BufferFile
    \/ \E e \in list_buf : EmitFile(e)
    \/ NextIteration
    \/ EndOfFiles

(***************************************************************************)
(* Specifications.                                                         *)
(***************************************************************************)
\* estimator.train with the TimeHistory hook
InitTrain ==
    TrainInit /\ PipeIdle /\ DataIdle /\ FileIdle /\ FreezeIdle /\ ListIdle

SpecTrain == InitTrain /\ [][TrainNext]_vars

\* the estimator of a training cell that sets EPOCHS = 2, before its
\* first train call has run a step
InitSession ==
    /\ TrainInit
    /\ train_args.epochs = EPOCHS
    /\ PipeIdle /\ DataIdle /\ FileIdle /\ FreezeIdle /\ ListIdle

\* train calls and evaluate calls on one estimator
SpecSession == InitSession /\ [][SessionNext]_vars

\* train calls that share one TimeHistory instance
SpecReuse == InitSession /\ [][ReuseNext]_vars

\* a train call whose steps may raise
SpecFailure == InitSession /\ [][FailureNext]_vars

\* the array-based input_fn iterated to its end
InitPipe ==
    PipeInit /\ TrainIdle /\ DataIdle /\ FileIdle /\ FreezeIdle /\ ListIdle

SpecPipe == InitPipe /\ [][PipeNext]_vars

\* the cells outside training: a run executes the Fashion-MNIST
\* preprocessing, or _map_func on a listed file, or the assembly and freezing
\* of the VGG16 model
InitCells ==
    /\ TrainIdle
    /\ PipeIdle
    /\ ListIdle
    /\ \/ DataInit /\ FileIdle /\ FreezeIdle
       \/ DataIdle /\ FileInit /\ FreezeIdle
       \/ DataIdle /\ FileIdle /\ FreezeInit

CellsNext ==
    \/ DataNext
    \/ FileNext
    \/ FreezeNext

SpecCells == InitCells /\ [][CellsNext]_vars

\* the file-pattern input_fn as a dataset of files
InitList ==
    ListInit /\ TrainIdle /\ PipeIdle /\ DataIdle /\ FileIdle /\ FreezeIdle

SpecList == InitList /\ [][ListNext]_vars

(***************************************************************************)
(* Claims about the TimeHistory hook and the mirrored training loop        *)
(* (specification SpecTrain).                                              *)
(***************************************************************************)
\* the number of batches of input_fn(images, labels, epochs, batch_size)
NumBatches(n, epochs, batch_size) == CeilDiv(n * epochs, batch_size)

\* between two session.run calls no device is inside a step
BetweenSteps == train_pc \in {"loop", "run", "ran", "hooks", "stopped"}

\* C1: after begin(), once k before_run/after_run pairs have run, times holds
\* exactly k entries in step order, the i-th being the clock at the i-th
\* after_run minus the clock at the i-th before_run.
C1_TimesPerStep ==
    train_pc /= "start" =>
        /\ Len(times) = Len(run_ends)
        /\ Len(run_ends) <= Len(run_starts)
        /\ Len(run_starts) <= Len(run_ends) + 1
        /\ \A i \in 1..Len(times) : times[i] = run_ends[i] - run_starts[i]

\* two steps were timed, the first took time, and they took different times
C1_Witness ==
    /\ Len(times) >= 2
    /\ times[1] > 0
    /\ times[1] /= times[2]
    /\ run_starts[2] > 0

\* C2: every device holds a copy of the parameters and, after every
\* completed training step, all the copies are identical.
C2_ReplicasIdentical ==
    /\ DOMAIN params = Devices
    /\ BetweenSteps => \A d, e \in Devices : params[d] = params[e]

\* a second step completed in which the devices' local gradients differed and
\* the update changed the parameters
C2_Witness ==
    /\ train_pc = "ran"
    /\ global_step >= 2
    /\ grads[1] /= grads[2]
    /\ reduced[1] /= 0

\* C3: no device applies the update of a step before the local gradients of
\* all NUM_GPUS devices for that step have arrived at it and been averaged,
\* and no device computes a gradient for step k+1 before every device has
\* applied the update of step k.
C3_Synchronous ==
    \A d \in Devices :
        /\ dev_updates[d] > global_step =>
              /\ received[d] = Devices
              /\ \A e \in Devices : dev_grad_step[e] = global_step + 1
              /\ reduced[d] = AverageGradient(grads, Devices)
        /\ \A e \in Devices : dev_updates[e] >= dev_grad_step[d] - 1

\* in the second step one device has applied the update while the other one,
\* whose gradient it already holds, has not
C3_Witness ==
    /\ train_pc = "step"
    /\ global_step = 1
    /\ dev_pc[1] = "done"
    /\ dev_pc[2] = "wait"

\* the batch indexes consumed so far
ConsumedBatches == {consumed[i][3] : i \in 1..Len(consumed)}

\* C10: every step gives each of the NUM_GPUS devices a batch of its own, no
\* batch is consumed by two devices or in two steps, training stops only when
\* the dataset cannot serve another step, and when the number of batches B is
\* a multiple of NUM_GPUS the final global step is B / NUM_GPUS (293 for
\* N = 60000, epochs = 5, batch_size = 512).
C10_BatchPerDevice ==
    LET B == NumBatches(train_args.n, train_args.epochs, train_args.batch_size)
        started == IF train_pc = "step" THEN global_step + 1 ELSE global_step
    IN  /\ Len(consumed) = started * NUM_GPUS
        /\ Cardinality(ConsumedBatches) = Len(consumed)
        /\ \A k \in 1..started : \A d \in Devices :
              LET c == consumed[(k - 1) * NUM_GPUS + d]
              IN  /\ c[1] = k
                  /\ c[2] = d
                  /\ c[3] >= 1
                  /\ c[3] <= Len(dataset)
        /\ train_pc = "stopped" =>
              /\ Len(dataset) - Cardinality(ConsumedBatches) < NUM_GPUS
              /\ B % NUM_GPUS = 0 => global_step = B \div NUM_GPUS
        /\ NumBatches(60000, 5, 512) % NUM_GPUS = 0
        /\ NumBatches(60000, 5, 512) \div NUM_GPUS = 293

\* training ran two steps and stopped on a dataset of 4 batches
C10_Witness ==
    /\ train_pc = "stopped"
    /\ Len(dataset) = 2 * NUM_GPUS
    /\ global_step = 2

\* C6: BATCH_SIZE * NUM_GPUS / mean(times) is the number of images trained on
\* per second, i.e. BATCH_SIZE * NUM_GPUS * len(times) = N * EPOCHS.  Stated
\* for the runs in which every batch is consumed (the number of batches is a
\* multiple of NUM_GPUS, as in the notebook's run).
C6_ThroughputExact ==
    (/\ train_pc = "stopped"
     /\ Len(dataset) % NUM_GPUS = 0)
        => train_args.batch_size * NUM_GPUS * Len(times)
               = train_args.n * train_args.epochs
(***************************************************************************)
(* Claims about the array-based input_fn (specification SpecPipe).         *)
(***************************************************************************)
\* the elements of a sequence of batches, in order
RECURSIVE Flatten(_)
Flatten(bs) == IF bs = <<>> THEN <<>> ELSE Head(bs) \o Flatten(Tail(bs))

\* C4: the dataset of input_fn(images, labels, epochs, batch_size) holds every
\* one of the N examples exactly `epochs` times, every image with its own
\* label, every batch but possibly the last has exactly batch_size examples,
\* and there are ceil(N * epochs / batch_size) batches.
C4_InputFnBatches ==
    LET N == Len(in_images)
        B == Len(out_batches)
        elems == Flatten(out_batches)
    IN  /\ \A i \in 1..Len(elems) :
              /\ elems[i].pos \in 1..N
              /\ elems[i].image = in_images[elems[i].pos]
              /\ elems[i].label = in_labels[elems[i].pos]
        /\ \A k \in 1..B :
              /\ Len(out_batches[k]) \in 1..pipe_args.batch_size
              /\ (k < B \/ pipe_pc /= "end")
                     => Len(out_batches[k]) = pipe_args.batch_size
        /\ pipe_pc = "end" =>
              /\ \A p \in 1..N :
                    Cardinality({i \in 1..Len(elems) : elems[i].pos = p})
                        = pipe_args.epochs
              /\ B = CeilDiv(N * pipe_args.epochs, pipe_args.batch_size)

\* a finished dataset of several batches whose last batch is partial, whose
\* first element is not the first example, built from examples whose labels
\* differ from each other and from the images
C4_Witness ==
    /\ pipe_pc = "end"
    /\ Len(out_batches) >= 2
    /\ Len(out_batches[Len(out_batches)]) < pipe_args.batch_size
    /\ out_batches[1][1].pos /= 1
    /\ pipe_args.epochs = 2
    /\ in_labels[1] /= in_labels[2]
    /\ in_images[1] /= in_labels[1]
(***************************************************************************)
(* Claims about the cells outside training (specification SpecCells).      *)
(***************************************************************************)
\* C5: for every file _map_func maps, the label is a vector of length
\* len(labels) with exactly one entry equal to 1, at the index in labels of
\* the name of the file's parent directory, and 0 elsewhere.
C5_LabelOneHot ==
    file_pc = "mapped" =>
        LET values == string_split(filename, <<>>)
            parent == values[Len(values) - 1]
        IN  /\ DOMAIN mapped.label = 0..(Len(labels) - 1)
            /\ \E k \in 1..Len(labels) :
                  /\ parent = <<labels[k]>>
                  /\ \A j \in 0..(Len(labels) - 1) :
                        mapped.label[j] = IF j = k - 1 THEN 1 ELSE 0

\* the positions of the trainable layers of the assembled model
TrainableLayers == {i \in 1..Len(model_layers) : model_layers[i].trainable}

\* C7: after the freezing loop just the last 5 layers of the assembled model
\* are trainable and every earlier layer has trainable = False.
C7_LastFiveTrainable ==
    freeze_pc = "done" =>
        TrainableLayers = (Len(model_layers) - 4)..Len(model_layers)

\* rows holds, for every label of ys, the vector with a 1 at the label and 0
\* elsewhere, which sums to 1
OneHotRows(rows, ys) ==
    /\ Len(rows) = Len(ys)
    /\ \A i \in 1..Len(ys) :
          /\ DOMAIN rows[i] = 0..(LABEL_DIMENSIONS - 1)
          /\ \A j \in 0..(LABEL_DIMENSIONS - 1) :
                rows[i][j] = IF j = ys[i] THEN 1 ELSE 0
          /\ SumOver(rows[i], DOMAIN rows[i]) = 1

\* C8: for every integer label l in 0..LABEL_DIMENSIONS-1 the encoded train
\* and test label is a vector of length LABEL_DIMENSIONS with a 1 at index l
\* and 0 elsewhere, summing to 1, and the cast to float32 leaves it so.
C8_OneHotSumsToOne ==
    /\ data_pc >= 0 =>
          /\ \A i \in 1..Len(loaded.train_labels) :
                loaded.train_labels[i] \in 0..(LABEL_DIMENSIONS - 1)
          /\ \A i \in 1..Len(loaded.test_labels) :
                loaded.test_labels[i] \in 0..(LABEL_DIMENSIONS - 1)
    /\ data_pc >= 5 => OneHotRows(train_labels, loaded.train_labels)
    /\ data_pc >= 6 => OneHotRows(test_labels, loaded.test_labels)

\* both label arrays are encoded and cast; the train label is the last class
\* and the test label the first
C8_Witness ==
    /\ data_pc = 8
    /\ loaded.train_labels[1] = LABEL_DIMENSIONS - 1
    /\ loaded.test_labels[1] = 0
    /\ train_labels[1][LABEL_DIMENSIONS - 1] = 1
    /\ test_labels[1][0] = 1

\* every pixel of the normalized array is raw / 255 for its raw intensity in
\* 0..255, hence in [0, 1], 0 for raw 0 and 1 for raw 255
NormalizedFrom(arr, raw) ==
    /\ Len(arr.data) = Len(raw.data)
    /\ \A k \in 1..Len(raw.data) :
          LET q == arr.data[k]
              v == raw.data[k]
          IN  /\ 0 <= v /\ v <= 255
              /\ q[2] > 0
              /\ q[1] * 255 = v * q[2]
              /\ 0 <= q[1] /\ q[1] <= q[2]
              /\ v = 0 => q[1] = 0
              /\ v = 255 => q[1] = q[2]

\* C9: after normalization every pixel is v / 255 for its raw intensity v in
\* 0..255, in [0, 1], with 0 mapped to 0 and 255 to 1: for the Fashion-MNIST
\* train and test arrays, and for the images of the file pipeline, whose
\* pixels after decode, dtype conversion and resize lie in [0, 1] and, where
\* the resize keeps the size, are the raw pixels over 255.
C9_PixelsInUnitInterval ==
    /\ data_pc >= 1 => NormalizedFrom(train_images, loaded.train_images)
    /\ data_pc >= 3 => NormalizedFrom(test_images, loaded.test_images)
    /\ file_pc = "mapped" =>
          /\ \A k \in 1..Len(mapped.image.data) :
                LET q == mapped.image.data[k]
                IN  q[2] > 0 /\ 0 <= q[1] /\ q[1] <= q[2]
          /\ mapped.image.shape = <<image_size[1], image_size[2], CHANNELS>>
          /\ Len(mapped.image.data) = image_size[1] * image_size[2] * CHANNELS
          /\ image_size = <<file_content.shape[1], file_content.shape[2]>>
                => NormalizedFrom(mapped.image, file_content)

\* both arrays are normalized and reshaped; the train array holds a pixel
\* that was 0 and one that was 255, now 0 and 1
C9_Witness ==
    /\ data_pc >= 4
    /\ train_images.shape = <<1, IMG_H, IMG_W, IMG_C>>
    /\ \E k \in 1..Len(train_images.data) :
          loaded.train_images.data[k] = 0 /\ train_images.data[k] = <<0, 255>>
    /\ \E k \in 1..Len(train_images.data) :
          loaded.train_images.data[k] = 255 /\ train_images.data[k] = <<255, 255>>
    /\ \E k \in 1..Len(test_images.data) : test_images.data[k] = <<128, 255>>
(***************************************************************************)
(* Claims about the estimator across calls (specification SpecSession).    *)
(***************************************************************************)
\* the training steps one train call completes on its dataset
StepsPerCall ==
    NumBatches(train_args.n, train_args.epochs, train_args.batch_size)
        \div NUM_GPUS

\* C11: estimator.evaluate called after estimator.train evaluates the
\* parameters saved at the final training step and reports its global step,
\* the number of training steps completed: after a train call that returned,
\* the checkpoint holds the global step and the parameters that call's
\* session ended with, and the global step counts the steps completed on the
\* estimator whose updates the model holds (all of them, unless an error
\* ended a session and the steps after its latest checkpoint went with it).
\* Whenever it is called, evaluate reports the latest checkpoint; it changes
\* neither the parameters nor the global step, so evaluate calls in a row
\* report the same global_step.
C11_EvaluateFinalStep ==
    /\ \A i \in 1..Len(eval_results) :
          /\ eval_results[i].calls = train_calls
          /\ eval_results[i].global_step = steps_done - steps_lost
          /\ steps_lost = 0 => eval_results[i].global_step = steps_done
          /\ eval_results[i].global_step = checkpoint
          /\ eval_results[i].params = ckpt_params
          /\ eval_results[i] = eval_results[1]
    /\ (train_pc \in {"stopped", "closed"} /\ ~train_error) =>
          /\ global_step = steps_done - steps_lost
          /\ checkpoint = global_step
          /\ \A d \in Devices : params[d] = ckpt_params
          /\ \A i \in 1..Len(eval_results) :
                /\ eval_results[i].global_step = global_step
                /\ \A d \in Devices : eval_results[i].params = params[d]

\* a first train call completed two steps, the first of them saved by the
\* checkpoint saver's timer, and raised; the second call restored
\* model.ckpt-1 and ran its two steps to the end; two evaluate calls in a
\* row then report global step 3, the steps the model holds out of 4
C11_Witness ==
    /\ train_pc = "closed"
    /\ ~train_error
    /\ train_calls = 2
    /\ steps_done = 4
    /\ steps_lost = 1
    /\ Len(times) = 2
    /\ Len(eval_results) = 2
    /\ eval_results[1].calls = 2
    /\ eval_results[1].global_step = 3
    /\ eval_results[2].global_step = 3
    /\ eval_results[2].params = params[1]
    /\ eval_results[2].params /= 0
(***************************************************************************)
(* Claims about a train call whose step raises (specification SpecFailure). *)
(***************************************************************************)
\* the step in hand has completed and its after_run has not been called
PendingAfterRun ==
    \/ train_pc \in {"ran", "hooks"}
    \/ train_pc = "closed" /\ fail_pc = "ran"

\* the latest session.run has had TimeHistory's before_run and not its
\* after_run: it is under way, or it raised (the end of the input included,
\* also once estimator.train has returned), or the cell was interrupted
\* before it started or when it returned
InStep ==
    \/ train_pc \in {"run", "step", "ran", "hooks", "stopped"}
    \/ /\ train_pc = "closed"
       /\ fail_pc \in {"none", "run", "step", "ran", "stopped"}

\* the latest error session.run raised went past the monitored session
StepErrorPropagated ==
    /\ raised /= <<>>
    /\ raised[Len(raised)] \notin PREEMPTION_ERRORS

\* C12 as amended: when a training step raises an error between before_run
\* and after_run, after_run is not invoked for that step and times gains no
\* entry for it: times holds exactly the elapsed times of the steps that
\* completed and had their after_run, each from its before_run to its
\* after_run.  Unless the error is a preemption error (AbortedError,
\* UnavailableError), it reaches the caller of estimator.train with no
\* recovery and is the last error of the call; after a preemption error the
\* monitored session is re-created and the train call goes on.
C12_FailedStepNotTimed ==
    /\ Len(run_ends) = Len(times)
    /\ \A i \in 1..Len(times) : times[i] = run_ends[i] - run_starts[i]
    /\ Len(times) = steps_done - (IF PendingAfterRun THEN 1 ELSE 0)
    /\ Len(run_starts) = Len(times) + (IF InStep THEN 1 ELSE 0)
    /\ \A i \in 1..(Len(raised) - 1) : raised[i] \in PREEMPTION_ERRORS
    /\ StepErrorPropagated =>
          /\ train_pc = "closed"
          /\ fail_pc \in {"run", "step"}
          /\ train_error
    /\ (train_pc = "closed" /\ fail_pc = "step") => StepErrorPropagated
    /\ train_error <=> (train_pc = "closed" /\ fail_pc /= "none")
    /\ Recoveries <= MaxRecoveries

\* the first step took one tick; the second was preempted, the session was
\* re-created at global step 0 and the first step run again; the step after
\* it ran out of memory once the devices had their batches and a tick had
\* passed: times holds the entries of the two steps that completed and none
\* for the tick of the failed step, the call has raised and both steps are
\* lost
C12_Witness ==
    /\ train_pc = "closed"
    /\ train_error
    /\ fail_pc = "step"
    /\ raised = <<"UnavailableError", "ResourceExhaustedError">>
    /\ global_step = 0
    /\ steps_done = 2
    /\ steps_lost = 2
    /\ Len(times) = 2
    /\ times[1] = 1
    /\ Len(run_starts) = 3
    /\ run_starts[3] = 1
    /\ clock = 2

\* C12 as stated: once a training step has raised an error between
\* before_run and after_run, the error has reached the caller of
\* estimator.train with no recovery, and times holds exactly the elapsed
\* times of the steps that completed before the failure.
C12_ErrorReachesCaller ==
    raised /= <<>> =>
        /\ train_pc = "closed"
        /\ train_error
        /\ Len(run_ends) = Len(times)
        /\ \A i \in 1..Len(times) : times[i] = run_ends[i] - run_starts[i]
        /\ Len(times) = steps_done
(***************************************************************************)
(* Claims about the file-pattern input_fn as a dataset (SpecList).         *)
(***************************************************************************)
\* C13: the repetition count of the file-pattern input_fn depends only on
\* num_epochs: with num_epochs None the finished dataset holds every matched
\* file exactly once, with num_epochs = n exactly n times, whether shuffle is
\* True or False; at most one of shuffle_and_repeat, shuffle and repeat is
\* applied.
C13_RepetitionByNumEpochs ==
    /\ list_pc \notin {"idle", "called"} =>
          /\ Cardinality(list_applied) <= 1
          /\ list_applied \subseteq {"shuffle_and_repeat", "shuffle", "repeat"}
          /\ ("shuffle_and_repeat" \in list_applied) <=>
                (list_args.shuffle /\ list_args.num_epochs /= None)
          /\ ("repeat" \in list_applied) <=>
                (~list_args.shuffle /\ list_args.num_epochs /= None)
          /\ ("shuffle" \in list_applied) <=>
                (list_args.shuffle /\ list_args.num_epochs = None)
    /\ list_pc = "end" =>
          /\ \A f \in 1..list_args.files :
                Count(list_out, f) = IF list_args.num_epochs = None THEN 1
                                     ELSE list_args.num_epochs[1]
          /\ Len(list_out) = list_args.files *
                (IF list_args.num_epochs = None THEN 1
                 ELSE list_args.num_epochs[1])
          /\ Flatten(list_batches) = list_out

\* the fused branch has repeated two files twice, and the second file came
\* out first
C13_Witness ==
    /\ list_pc = "end"
    /\ list_args.shuffle
    /\ list_args.num_epochs = <<2>>
    /\ list_args.files = 2
    /\ list_applied = {"shuffle_and_repeat"}
    /\ Len(list_out) = 4
    /\ list_out[1] = 2
    /\ Len(list_batches) = 2
(***************************************************************************)
(* Claims about the shuffle of the array-based input_fn (SpecPipe).        *)
(***************************************************************************)
\* the examples the dataset has emitted so far, in order
Emitted == Flatten(out_batches) \o cur_batch

\* C14: with shuffle(SHUFFLE_SIZE) before repeat, within each epoch the
\* example at input position i is never emitted before output position
\* i - (SHUFFLE_SIZE - 1), every epoch emits each example exactly once, and
\* no example of the next epoch is emitted before all examples of this one.
C14_ShuffleWindow ==
    LET N == Len(in_images)
        elems == Emitted
    IN  pipe_pc /= "idle" =>
          /\ \A k \in 1..Len(elems) :
                ((k - 1) % N) + 1 >= elems[k].pos - (SHUFFLE_SIZE - 1)
          /\ \A e \in 1..pipe_args.epochs : \A p \in 1..N :
                LET hits == {k \in ((e - 1) * N + 1)..Min(e * N, Len(elems)) :
                                elems[k].pos = p}
                IN  /\ Cardinality(hits) <= 1
                    /\ Len(elems) >= e * N => Cardinality(hits) = 1
          /\ Len(elems) + Cardinality(shuffle_buf) = (pipe_epoch - 1) * N + pipe_pos
          /\ Len(elems) <= pipe_epoch * N
          /\ \A b \in shuffle_buf : b.pos <= pipe_pos

\* three examples through a buffer of two, twice: the first epoch starts
\* with the second example, the farthest the buffer reaches, and ends with
\* the first; the second epoch comes out in another order
C14_Witness ==
    /\ pipe_pc = "end"
    /\ Len(in_images) = 3
    /\ SHUFFLE_SIZE < Len(in_images)
    /\ pipe_args.epochs = 2
    /\ Len(Emitted) = 6
    /\ Emitted[1].pos = SHUFFLE_SIZE
    /\ Emitted[3].pos = 1
    /\ Emitted[4].pos = 1
(***************************************************************************)
(* Claims about a hook instance used again (specification SpecReuse).      *)
(***************************************************************************)
\* C15: when the same TimeHistory instance is passed to a further train call,
\* begin() replaces times with an empty list: once it has run, times holds only
\* the entries of the most recent run, one per step of that run that has
\* had its after_run (the steps of the dataset, unless the run's session was
\* re-created and ran steps again), and sum(times) adds up the elapsed times
\* of that run alone.
C15_BeginResetsTimes ==
    (hook_calls >= 2 /\ train_pc /= "start" /\ fail_pc /= "start") =>
        /\ Recoveries = 0 => Len(times) <= StepsPerCall
        /\ Len(times) = Len(run_ends)
        /\ \A i \in 1..Len(times) : times[i] = run_ends[i] - run_starts[i]
        /\ SumSeq(times) =
              SumSeq([i \in 1..Len(run_ends) |-> run_ends[i] - run_starts[i]])
        /\ (train_pc \in {"stopped", "closed"} /\ ~train_error /\ Recoveries = 0) =>
              Len(times) = StepsPerCall
        /\ (train_pc = "closed" /\ fail_pc = "stopped" /\ Recoveries = 0) =>
              Len(times) = StepsPerCall

\* the second train call has returned after two steps, as the first had
\* (the checkpoint is at step 4): times holds the two entries of the second
\* call, not four, and their sum is less than the time that has passed
C15_Witness ==
    /\ train_calls = 2
    /\ hook_calls = 2
    /\ train_pc = "stopped"
    /\ checkpoint = 4
    /\ clock = 2
    /\ times = <<0, 1>>
    /\ run_starts[1] = 1
    /\ SumSeq(times) = 1
(***************************************************************************)
(* Claims about the reshape of the image arrays (specification SpecCells). *)
(***************************************************************************)
\* arr[i, r, c] of a three-axis array in row-major order, indexes from 0
At3(arr, i, r, c) ==
    arr.data[(i * arr.shape[2] + r) * arr.shape[3] + c + 1]

\* arr[i, r, c, ch] of a four-axis array in row-major order, indexes from 0
At4(arr, i, r, c, ch) ==
    arr.data[((i * arr.shape[2] + r) * arr.shape[3] + c) * arr.shape[4] + ch + 1]

\* arr is src normalized and reshaped to (N, 28, 28, 1) with every pixel in
\* place: the same number of images, and pixel [i, r, c, 0] of image i is
\* pixel [i, r, c] of image i of src
ReshapedInPlace(arr, src) ==
    /\ arr.shape = <<src.shape[1], IMG_H, IMG_W, IMG_C>>
    /\ Len(arr.data) = Len(src.data)
    /\ \A i \in 0..(src.shape[1] - 1), r \in 0..(IMG_H - 1), c \in 0..(IMG_W - 1) :
          At4(arr, i, r, c, 0) = Divide255(At3(src, i, r, c))

\* lbls holds one label per image of arr, and label i is still the label
\* load_data returned for image i: the integer itself or, once encoded, the
\* row with its 1 at that integer
LabelsAligned(lbls, arr, src, encoded) ==
    /\ Len(lbls) = arr.shape[1]
    /\ Len(lbls) = Len(src)
    /\ \A i \in 1..Len(src) :
          IF encoded
          THEN /\ DOMAIN lbls[i] = 0..(LABEL_DIMENSIONS - 1)
               /\ lbls[i][src[i]] = 1
          ELSE lbls[i] = src[i]

\* C16: reshaping the image arrays to (N, 28, 28, 1) keeps the number of
\* images and every pixel in place: element [i, r, c, 0] of the result is
\* element [i, r, c] of the normalized input, so no pixel moves between
\* images and image i stays aligned with label i.
C16_ReshapeKeepsPixels ==
    /\ data_pc >= 2 =>
          /\ ReshapedInPlace(train_images, loaded.train_images)
          /\ LabelsAligned(train_labels, train_images, loaded.train_labels, data_pc >= 5)
    /\ data_pc >= 4 =>
          /\ ReshapedInPlace(test_images, loaded.test_images)
          /\ LabelsAligned(test_labels, test_images, loaded.test_labels, data_pc >= 6)
    /\ (data_pc >= 0 /\ data_pc < 5) => train_labels = loaded.train_labels
    /\ (data_pc >= 0 /\ data_pc < 6) => test_labels = loaded.test_labels

\* both arrays are reshaped and hold the most images; the first and the
\* last train image differ at [0, 0] and have different labels, each image
\* kept its own pixel there and its own label, and in the last image the
\* first pixel of the last row differs from the last pixel of the first row
C16_Witness ==
    /\ data_pc = 4
    /\ train_images.shape = <<MaxImages, IMG_H, IMG_W, IMG_C>>
    /\ test_images.shape = <<MaxImages, IMG_H, IMG_W, IMG_C>>
    /\ At4(train_images, 0, 0, 0, 0) /= At4(train_images, MaxImages - 1, 0, 0, 0)
    /\ At4(train_images, 0, 0, 0, 0) = Divide255(At3(loaded.train_images, 0, 0, 0))
    /\ At4(train_images, MaxImages - 1, 0, 0, 0)
          = Divide255(At3(loaded.train_images, MaxImages - 1, 0, 0))
    /\ At4(test_images, 0, 0, 0, 0) /= At4(test_images, MaxImages - 1, 0, 0, 0)
    /\ At4(train_images, MaxImages - 1, IMG_H - 1, 0, 0)
          /= At4(train_images, MaxImages - 1, 0, IMG_W - 1, 0)
    /\ Len(train_labels) = MaxImages
    /\ train_labels[1] /= train_labels[MaxImages]
    /\ train_labels[MaxImages] = loaded.train_labels[MaxImages]
====
